---- MODULE Spec2Model ----
(***************************************************************************)
(* tokio-diesel: the bridge of a blocking diesel/r2d2 connection pool into *)
(* tokio tasks (src/src/lib.rs).                                           *)
(*                                                                         *)
(* Every operation of the facade (run, transaction, batch_execute_async)   *)
(* clones the pool handle, hands one closure to task::spawn_blocking and   *)
(* awaits its JoinHandle with .expect("task has panicked").  The closure   *)
(* checks a connection out of the pool (Pool::get), runs the caller's work *)
(* on it and drops the pooled connection when it returns or unwinds.       *)
(*                                                                         *)
(* The collaborators the code calls are modelled by what they do on the    *)
(* paths the code takes:                                                   *)
(*   - r2d2 Pool::get blocks while no connection is idle and gives up with *)
(*     an error after the connection timeout; dropping a pooled connection *)
(*     puts it back unless the manager reports has_broken (the managers    *)
(*     used here report false, examples/custom_connection_manager.rs:46);  *)
(*   - diesel Connection::transaction opens a scope (BEGIN, or a SAVEPOINT *)
(*     when the connection's transaction depth is already positive), calls *)
(*     the closure, commits on Ok and rolls back on Err; a panic unwinds   *)
(*     through it and runs neither;                                        *)
(*   - spawn_blocking runs at most `workers` closures at a time, catches a *)
(*     panic of the closure and reports it through the JoinHandle.         *)
(* The database server is taken to be up: BEGIN, COMMIT and ROLLBACK       *)
(* themselves succeed, and a checkout fails only by timing out.            *)
(***************************************************************************)
EXTENDS Integers, Sequences, FiniteSets, TLC

\* ---- bounds of the model ----
MaxCalls   == 2   \* operations issued in one behaviour
NumTasks   == 2   \* caller tasks
MaxCap     == 2   \* largest pool capacity (r2d2 max_size) tried
MaxWorkers == 2   \* largest number of blocking worker threads tried

Tasks   == 1..NumTasks
CallIds == 1..MaxCalls
ConnIds == 1..MaxCap

\* ---- the caller-supplied work ----
\* A closure is the statements it issues on the connection ("W" inserts a
\* row, "R" reads the rows it can see) and the way it ends: it returns Ok,
\* returns a query failure (NotFound or another database error) or panics.
F == << [ops |-> <<"R">>,      end |-> "Ok"],
        [ops |-> <<"W">>,      end |-> "Ok"],
        [ops |-> <<"W", "W">>, end |-> "DbError"],
        [ops |-> <<>>,         end |-> "NotFound"],
        [ops |-> <<"W">>,      end |-> "Panic"] >>

Closures == 1..Len(F)

\* The text handed to batch_execute_async is statements only: it neither
\* returns rows nor runs caller code that could panic.
BatchQueries == {g \in Closures : F[g].end \in {"Ok", "DbError"}
                                  /\ \A i \in 1..Len(F[g].ops) : F[g].ops[i] = "W"}

Ops == {"run", "transaction", "batch"}

Queries(o) == IF o = "batch" THEN BatchQueries ELSE Closures

\* The query objects tried with each operation of AsyncRunQueryDsl, as the
\* work their blocking method does: execute an insert, load the rows, count
\* them (get_result), look a row up that is not there (first).
ExtQueries(v) ==
    CASE v = "execute_async"     -> {2}
      [] v = "load_async"        -> {1}
      [] v = "get_results_async" -> {1}
      [] v = "get_result_async"  -> {1}
      [] v = "first_async"       -> {4}

Rows == CallIds \X (1..2)

\* ---- AsyncResult<R> ----
NoRes          == [kind |-> "None",     val |-> 0, err |-> "-"]
Ok(v)          == [kind |-> "Ok",       val |-> v, err |-> "-"]
Error(e)       == [kind |-> "Error",    val |-> 0, err |-> e]
Checkout(e)    == [kind |-> "Checkout", val |-> 0, err |-> e]
\* What the JoinHandle yields when the closure panicked (a JoinError); it is
\* not a member of AsyncError.
JoinPanic      == [kind |-> "Panic",    val |-> 0, err |-> "-"]
\* Result<Option<T>, AsyncError>
OkSome(v)      == [kind |-> "OkSome",   val |-> v, err |-> "-"]
OkNone         == [kind |-> "OkNone",   val |-> 0, err |-> "-"]

VARIABLES
    max_size,   \* capacity of the pool
    workers,    \* number of blocking worker threads
    idle,       \* connections idle in the pool
    handles,    \* live clones of the pool handle
    txn,        \* per connection: the open transaction scopes, innermost
                \* last, each the rows written in it and not yet committed
    db,         \* committed rows
    call,       \* the operations, in the order they were issued
    panicked    \* caller tasks that have terminated by a panic

vars == <<max_size, workers, idle, handles, txn, db, call, panicked>>

NewCall == [task |-> 0, op |-> "run", via |-> "-", f |-> 1, pc |-> "new", ip |-> 0,
            conn |-> 0, inv |-> 0, seen |-> {}, val |-> 0,
            res |-> NoRes, out |-> NoRes, cancelled |-> FALSE]

\* Positions of an operation at which its closure occupies a worker thread.
OnWorker == {"get", "begin", "body", "exit"}

busy == Cardinality({n \in CallIds : call[n].pc \in OnWorker})

issued == Cardinality({n \in CallIds : call[n].pc # "new"})

held == {call[n].conn : n \in CallIds} \ {0}

\* The rows a statement on connection c sees: what is committed and what
\* the scopes open on c itself have written.
Visible(c) == db \cup UNION {txn[c][k] : k \in 1..Len(txn[c])}

Init ==
    /\ max_size \in 1..MaxCap
    /\ workers \in 1..MaxWorkers
    /\ idle = 1..max_size
    /\ handles = 1
    /\ txn = [c \in ConnIds |-> <<>>]
    /\ db = {}
    /\ call = [n \in CallIds |-> NewCall]
    /\ panicked = {}


\* ---- the pool handle ----
\* Fault: a clone that copies the pool, bringing a connection of its own.
PoolCloneDeep ==
    /\ handles' = handles + 1
    /\ idle' = idle \cup {Cardinality(idle \cup held) + 1}
    /\ UNCHANGED max_size

\* Pool::clone (lib.rs:75, 114, 129): the clone shares the pool's state; it
\* is one more handle on the same connections.
PoolClone ==
    /\ handles' = handles + 1
    /\ UNCHANGED <<max_size, idle>>

\* ---- submitting an operation ----
\* A caller task awaits each operation before it issues the next one; a task
\* that has panicked issues nothing more; a task that dropped the future of
\* an operation is free to go on.  Caller tasks are interchangeable:
\* they are numbered in the order of their first operation.
CanIssue(t) ==
    /\ t \notin panicked
    /\ issued < MaxCalls
    /\ \A u \in 1..(t - 1) : \E n \in CallIds : call[n].task = u
    /\ \A n \in CallIds :
           call[n].task = t => call[n].pc = "done" \/ call[n].cancelled

\* Fault: the connection is checked out by the calling task, on its
\* scheduler thread, and moved into the closure.
spawn_blocking_after_get(t, o, g, v) ==
    /\ CanIssue(t)
    /\ g \in Queries(o)
    /\ handles' = handles + 1
    /\ \E c \in idle \cup {0} :
          /\ idle' = idle \ {c}
          /\ call' = [call EXCEPT ![issued + 1] =
                         [NewCall EXCEPT !.task = t, !.op = o, !.via = v,
                                         !.f = g, !.conn = c, !.pc = "queued"]]
    /\ UNCHANGED <<max_size, workers, txn, db, panicked>>

\* task::spawn_blocking(move || ...): the closure, owning the cloned handle
\* and the caller's work, is queued for a blocking worker.
\* v is the method the caller called.
spawn_blocking(t, o, g, v) ==
    /\ CanIssue(t)
    /\ g \in Queries(o)
    /\ PoolClone
    /\ call' = [call EXCEPT ![issued + 1] =
                   [NewCall EXCEPT !.task = t, !.op = o, !.via = v, !.f = g,
                                   !.pc = "queued"]]
    /\ UNCHANGED <<workers, txn, db, panicked>>

\* The body of run (lib.rs:109-121), reached by the caller's own call of run
\* or from an operation of AsyncRunQueryDsl.
RunVia(t, g, v) == spawn_blocking(t, "run", g, v)

run(t, g) == RunVia(t, g, "run")

transaction(t, g) == spawn_blocking(t, "transaction", g, "transaction")

batch_execute_async(t, g) == spawn_blocking(t, "batch", g, "batch_execute_async")

\* ---- AsyncRunQueryDsl: asc.run(|conn| self.<method>(&*conn)).await ----
execute_async(t, q) ==
    /\ q \in ExtQueries("execute_async")
    /\ RunVia(t, q, "execute_async")

load_async(t, q) ==
    /\ q \in ExtQueries("load_async")
    /\ RunVia(t, q, "load_async")

get_result_async(t, q) ==
    /\ q \in ExtQueries("get_result_async")
    /\ RunVia(t, q, "get_result_async")

\* Fault: get_results_async built on the single-row lookup.
get_results_async_first(t, q) ==
    /\ q \in ExtQueries("get_results_async")
    /\ RunVia(t, 4, "get_results_async")

get_results_async(t, q) ==
    /\ q \in ExtQueries("get_results_async")
    /\ RunVia(t, q, "get_results_async")

first_async(t, q) ==
    /\ q \in ExtQueries("first_async")
    /\ RunVia(t, q, "first_async")

\* A blocking worker thread picks the closure up.
WorkerStart(n) ==
    /\ call[n].pc = "queued"
    /\ busy < workers
    /\ call' = [call EXCEPT ![n].pc = "get"]
    /\ UNCHANGED <<max_size, workers, idle, handles, txn, db, panicked>>

\* ---- the closure, on its worker ----
\* Fault: a checkout that hands the connection out and leaves it idle too.
get_shared(n, c) ==
    /\ call[n].pc = "get"
    /\ c \in idle
    /\ idle' = idle
    /\ call' = [call EXCEPT ![n].conn = c,
                            ![n].pc = IF call[n].op = "transaction"
                                      THEN "begin" ELSE "body",
                            ![n].inv = IF call[n].op = "transaction"
                                       THEN @ ELSE @ + 1]
    /\ UNCHANGED <<max_size, workers, handles, txn, db, panicked>>

\* self_.get() succeeded: the connection leaves the pool and belongs to this
\* closure.  run and batch_execute_async go on to the caller's work,
\* transaction to opening its scope.
get(n, c) ==
    /\ call[n].pc = "get"
    /\ c \in idle
    /\ idle' = idle \ {c}
    /\ call' = [call EXCEPT ![n].conn = c,
                            ![n].pc = IF call[n].op = "transaction"
                                      THEN "begin" ELSE "body",
                            ![n].inv = IF call[n].op = "transaction"
                                       THEN @ ELSE @ + 1]
    /\ UNCHANGED <<max_size, workers, handles, txn, db, panicked>>

\* self_.get().map_err(AsyncError::Checkout)?: the pool stayed exhausted for
\* the whole connection timeout; the closure returns the error at once.
get_timeout(n) ==
    /\ call[n].pc = "get"
    /\ idle = {}
    /\ call' = [call EXCEPT ![n].res = Checkout("Timeout"), ![n].pc = "exit"]
    /\ UNCHANGED <<max_size, workers, idle, handles, txn, db, panicked>>

\* Fault: the scope is opened on a second connection when the pool has one,
\* the first being kept as well.
begin_transaction_second_checkout(n) ==
    /\ call[n].pc = "begin"
    /\ \E c \in (IF idle = {} THEN {call[n].conn} ELSE idle) :
          /\ idle' = idle \ {c}
          /\ txn' = [txn EXCEPT ![c] = Append(@, {})]
          /\ call' = [call EXCEPT ![n].pc = "body", ![n].inv = @ + 1,
                                  ![n].conn = c]
    /\ UNCHANGED <<max_size, workers, handles, db, panicked>>

\* conn.transaction(|| ...) opens its scope and calls f.
begin_transaction(n) ==
    /\ call[n].pc = "begin"
    /\ txn' = [txn EXCEPT ![call[n].conn] = Append(@, {})]
    /\ call' = [call EXCEPT ![n].pc = "body", ![n].inv = @ + 1]
    /\ UNCHANGED <<max_size, workers, idle, handles, db, panicked>>

\* Fault: each statement is offloaded in its turn and needs a free worker
\* of its own while the closure keeps the one it is on.
StatementNeedsWorker(n) ==
    LET c == call[n].conn
        i == call[n].ip + 1
        d == Len(txn[c])
    IN  /\ call[n].pc = "body"
        /\ busy < workers
        /\ i <= Len(F[call[n].f].ops)
        /\ IF F[call[n].f].ops[i] = "W"
           THEN /\ IF d = 0
                   THEN db' = db \cup {<<n, i>>} /\ txn' = txn
                   ELSE db' = db /\ txn' = [txn EXCEPT ![c][d] = @ \cup {<<n, i>>}]
                /\ call' = [call EXCEPT ![n].ip = i, ![n].val = 1]
           ELSE /\ call' = [call EXCEPT ![n].ip = i, ![n].seen = Visible(c),
                                        ![n].val = Cardinality(Visible(c))]
                /\ UNCHANGED <<db, txn>>
        /\ UNCHANGED <<max_size, workers, idle, handles, panicked>>

\* The caller's work issues its next statement on the connection.  Outside
\* a scope a write is committed at once; inside one it stays with the scope.
Statement(n) ==
    LET c == call[n].conn
        i == call[n].ip + 1
        d == Len(txn[c])
    IN  /\ call[n].pc = "body"
        /\ i <= Len(F[call[n].f].ops)
        /\ IF F[call[n].f].ops[i] = "W"
           THEN /\ IF d = 0
                   THEN db' = db \cup {<<n, i>>} /\ txn' = txn
                   ELSE db' = db /\ txn' = [txn EXCEPT ![c][d] = @ \cup {<<n, i>>}]
                /\ call' = [call EXCEPT ![n].ip = i, ![n].val = 1]
           ELSE /\ call' = [call EXCEPT ![n].ip = i, ![n].seen = Visible(c),
                                        ![n].val = Cardinality(Visible(c))]
                /\ UNCHANGED <<db, txn>>
        /\ UNCHANGED <<max_size, workers, idle, handles, panicked>>

\* The caller's work has issued all its statements (ip is at the end).
AtEnd(n) ==
    /\ call[n].pc = "body"
    /\ call[n].ip = Len(F[call[n].f].ops)

\* Fault: a NotFound of the work is swallowed into an empty success.
FReturnSwallowsNotFound(n) ==
    LET e == F[call[n].f].end
    IN  /\ AtEnd(n)
        /\ call[n].op # "transaction"
        /\ e # "Panic"
        /\ call' = [call EXCEPT
              ![n].res = IF e \in {"Ok", "NotFound"}
                         THEN Ok(IF call[n].op = "batch" THEN 0 ELSE call[n].val)
                         ELSE Error(e),
              ![n].pc = "exit"]
        /\ UNCHANGED <<max_size, workers, idle, handles, txn, db, panicked>>

\* Fault: a work that fails is run a second time before its error is
\* returned.
FReturnRetriesOnError(n) ==
    LET e == F[call[n].f].end
    IN  /\ AtEnd(n)
        /\ call[n].op # "transaction"
        /\ e # "Panic"
        /\ call' = IF e # "Ok" /\ call[n].inv = 1
                   THEN [call EXCEPT ![n].ip = 0, ![n].inv = 2]
                   ELSE [call EXCEPT
                           ![n].res = IF e = "Ok"
                                      THEN Ok(IF call[n].op = "batch" THEN 0
                                              ELSE call[n].val)
                                      ELSE Error(e),
                           ![n].pc = "exit"]
        /\ UNCHANGED <<max_size, workers, idle, handles, txn, db, panicked>>

\* run, batch_execute_async: the work returns Ok(r) or Err(e); the closure
\* returns it with the error mapped by map_err(AsyncError::Error).
\* batch_execute yields Ok(()), written Ok(0).
FReturn(n) ==
    LET e == F[call[n].f].end
    IN  /\ AtEnd(n)
        /\ call[n].op # "transaction"
        /\ e # "Panic"
        /\ call' = [call EXCEPT
              ![n].res = IF e = "Ok"
                         THEN Ok(IF call[n].op = "batch" THEN 0 ELSE call[n].val)
                         ELSE Error(e),
              ![n].pc = "exit"]
        /\ UNCHANGED <<max_size, workers, idle, handles, txn, db, panicked>>

\* transaction, f returned Ok(r): the scope is closed by a commit and Ok(r)
\* is the result.  The outermost scope of the connection makes its rows the
\* database's; an inner one (a savepoint) hands them to the scope around it.
commit_transaction(n) ==
    LET c == call[n].conn
        d == Len(txn[c])
    IN  /\ AtEnd(n)
        /\ call[n].op = "transaction"
        /\ F[call[n].f].end = "Ok"
        /\ IF d = 1
           THEN /\ db' = db \cup txn[c][1]
                /\ txn' = [txn EXCEPT ![c] = <<>>]
           ELSE /\ db' = db
                /\ txn' = [txn EXCEPT ![c] =
                             Append(SubSeq(@, 1, d - 2), @[d - 1] \cup @[d])]
        /\ call' = [call EXCEPT ![n].res = Ok(call[n].val), ![n].pc = "exit"]
        /\ UNCHANGED <<max_size, workers, idle, handles, panicked>>

\* Fault: the failure path closes the scope the way the success path does.
rollback_commits(n) ==
    LET c == call[n].conn
        d == Len(txn[c])
    IN  /\ AtEnd(n)
        /\ call[n].op = "transaction"
        /\ F[call[n].f].end \notin {"Ok", "Panic"}
        /\ IF d = 1
           THEN /\ db' = db \cup txn[c][1]
                /\ txn' = [txn EXCEPT ![c] = <<>>]
           ELSE /\ db' = db
                /\ txn' = [txn EXCEPT ![c] =
                             Append(SubSeq(@, 1, d - 2), @[d - 1] \cup @[d])]
        /\ call' = [call EXCEPT ![n].res = Error(F[call[n].f].end), ![n].pc = "exit"]
        /\ UNCHANGED <<max_size, workers, idle, handles, panicked>>

\* transaction, f returned Err(e): the scope is closed by a rollback, its
\* rows are discarded, and Error(e) is the result.
rollback_transaction(n) ==
    LET c == call[n].conn
        d == Len(txn[c])
    IN  /\ AtEnd(n)
        /\ call[n].op = "transaction"
        /\ F[call[n].f].end \notin {"Ok", "Panic"}
        /\ txn' = [txn EXCEPT ![c] = SubSeq(@, 1, d - 1)]
        /\ call' = [call EXCEPT ![n].res = Error(F[call[n].f].end), ![n].pc = "exit"]
        /\ UNCHANGED <<max_size, workers, idle, handles, db, panicked>>

\* The caller's work panics: the stack unwinds out of the closure.  Inside
\* conn.transaction neither the commit nor the rollback runs, so the scope
\* stays open on the connection.
Panic(n) ==
    /\ AtEnd(n)
    /\ F[call[n].f].end = "Panic"
    /\ call' = [call EXCEPT ![n].res = JoinPanic, ![n].pc = "exit"]
    /\ UNCHANGED <<max_size, workers, idle, handles, txn, db, panicked>>

\* Fault: the connection is put back only when the closure returns Ok.
DropClosureLeaksOnError(n) ==
    /\ call[n].pc = "exit"
    /\ idle' = IF call[n].conn = 0 \/ call[n].res.kind = "Error"
               THEN idle ELSE idle \cup {call[n].conn}
    /\ handles' = handles - 1
    /\ call' = [call EXCEPT ![n].conn = 0,
                            ![n].pc = IF call[n].cancelled THEN "done" ELSE "ready"]
    /\ UNCHANGED <<max_size, workers, txn, db, panicked>>

\* Fault: a closure that unwinds takes its connection with it.
DropClosureLeaksOnPanic(n) ==
    /\ call[n].pc = "exit"
    /\ idle' = IF call[n].conn = 0 \/ call[n].res.kind = "Panic"
               THEN idle ELSE idle \cup {call[n].conn}
    /\ handles' = handles - 1
    /\ call' = [call EXCEPT ![n].conn = 0,
                            ![n].pc = IF call[n].cancelled THEN "done" ELSE "ready"]
    /\ UNCHANGED <<max_size, workers, txn, db, panicked>>

\* Fault: a closure that unwinds takes its worker down and its JoinHandle
\* never completes.
DropClosureWorkerDies(n) ==
    /\ call[n].pc = "exit"
    /\ call[n].res.kind # "Panic"
    /\ idle' = IF call[n].conn = 0 THEN idle ELSE idle \cup {call[n].conn}
    /\ handles' = handles - 1
    /\ call' = [call EXCEPT ![n].conn = 0,
                            ![n].pc = IF call[n].cancelled THEN "done" ELSE "ready"]
    /\ UNCHANGED <<max_size, workers, txn, db, panicked>>

\* Fault: the outcome is made available first, the connection still being
\* with the closure.
DropClosureAfterResult(n) ==
    /\ call[n].pc = "exit"
    /\ idle' = idle
    /\ handles' = handles - 1
    /\ call' = [call EXCEPT
                  ![n].pc = IF call[n].cancelled THEN "done" ELSE "ready"]
    /\ UNCHANGED <<max_size, workers, txn, db, panicked>>

\* The closure returns or unwinds: its locals are dropped, so the pooled
\* connection (if one was checked out) goes back to the pool and the cloned
\* handle is gone; the worker is free and the JoinHandle has the outcome,
\* which nobody takes if the future that held the JoinHandle was dropped.
DropClosure(n) ==
    /\ call[n].pc = "exit"
    /\ idle' = IF call[n].conn = 0 THEN idle ELSE idle \cup {call[n].conn}
    /\ handles' = handles - 1
    /\ call' = [call EXCEPT ![n].conn = 0,
                            ![n].pc = IF call[n].cancelled THEN "done" ELSE "ready"]
    /\ UNCHANGED <<max_size, workers, txn, db, panicked>>

\* ---- back in the caller task ----
\* Fault: dropping the future takes the closure off its worker where it
\* stands (or off the queue), giving the connection back.
CancelAborts(n) ==
    /\ call[n].pc \in {"queued", "get", "begin", "body", "exit", "ready"}
    /\ ~call[n].cancelled
    /\ idle' = IF call[n].conn = 0 THEN idle ELSE idle \cup {call[n].conn}
    /\ handles' = IF call[n].pc = "ready" THEN handles ELSE handles - 1
    /\ call' = [call EXCEPT ![n].cancelled = TRUE, ![n].conn = 0,
                            ![n].pc = "done"]
    /\ UNCHANGED <<max_size, workers, txn, db, panicked>>

\* The future of an operation is dropped before it resolved (the awaiting
\* task is cancelled, or a select or timeout around the call fires).  The
\* future owns only the JoinHandle (lib.rs:115-120); dropping a JoinHandle
\* detaches the blocking closure, which stays queued or running.
Cancel(n) ==
    /\ call[n].pc \in {"queued", "get", "begin", "body", "exit", "ready"}
    /\ ~call[n].cancelled
    /\ call' = [call EXCEPT ![n].cancelled = TRUE,
                            ![n].pc = IF call[n].pc = "ready" THEN "done" ELSE @]
    /\ UNCHANGED <<max_size, workers, idle, handles, txn, db, panicked>>

\* Fault: every query failure, not only NotFound, becomes None.
optionalDropsErrors(r) ==
    IF r.kind = "Ok" THEN OkSome(r.val)
    ELSE IF r.kind = "Error" THEN OkNone
    ELSE r

\* OptionalExtension::optional (lib.rs:31-39).
optional(r) ==
    IF r.kind = "Ok" THEN OkSome(r.val)
    ELSE IF r = Error("NotFound") THEN OkNone
    ELSE r

\* .await.expect("task has panicked"): the caller task resumes with the
\* closure's result; if the closure panicked the JoinHandle holds an Err and
\* expect panics in the caller task.  `out` is what .optional(), chained to
\* the call, makes of the result.
Await(n) ==
    /\ call[n].pc = "ready"
    /\ IF call[n].res.kind = "Panic"
       THEN /\ panicked' = panicked \cup {call[n].task}
            /\ call' = [call EXCEPT ![n].pc = "done"]
       ELSE /\ panicked' = panicked
            /\ call' = [call EXCEPT ![n].pc = "done",
                                        ![n].out = optional(call[n].res)]
    /\ UNCHANGED <<max_size, workers, idle, handles, txn, db>>

Next ==
    \/ \E t \in Tasks, g \in Closures : run(t, g)
    \/ \E t \in Tasks, g \in Closures : transaction(t, g)
    \/ \E t \in Tasks, g \in Closures : batch_execute_async(t, g)
    \/ \E t \in Tasks, q \in Closures : execute_async(t, q)
    \/ \E t \in Tasks, q \in Closures : load_async(t, q)
    \/ \E t \in Tasks, q \in Closures : get_result_async(t, q)
    \/ \E t \in Tasks, q \in Closures : get_results_async(t, q)
    \/ \E t \in Tasks, q \in Closures : first_async(t, q)
    \/ \E n \in CallIds : WorkerStart(n)
    \/ \E n \in CallIds, c \in ConnIds : get(n, c)
    \/ \E n \in CallIds : get_timeout(n)
    \/ \E n \in CallIds : begin_transaction(n)
    \/ \E n \in CallIds : Statement(n)
    \/ \E n \in CallIds : FReturn(n)
    \/ \E n \in CallIds : commit_transaction(n)
    \/ \E n \in CallIds : rollback_transaction(n)
    \/ \E n \in CallIds : Panic(n)
    \/ \E n \in CallIds : DropClosure(n)
    \/ \E n \in CallIds : Await(n)
    \/ \E n \in CallIds : Cancel(n)

Spec == Init /\ [][Next]_vars

\* Scheduling: the blocking pool gives a queued closure a worker once one
\* is free; Pool::get returns a connection or times out; the work issues its
\* statements and ends; an awaiting task is resumed when its JoinHandle is
\* complete.
Fairness ==
    \A n \in CallIds :
        /\ WF_vars(WorkerStart(n))
        /\ WF_vars((\E c \in ConnIds : get(n, c)) \/ get_timeout(n))
        /\ WF_vars(begin_transaction(n))
        /\ WF_vars(Statement(n))
        /\ WF_vars(FReturn(n) \/ commit_transaction(n)
                     \/ rollback_transaction(n) \/ Panic(n))
        /\ WF_vars(DropClosure(n))
        /\ WF_vars(Await(n))

FairSpec == Spec /\ Fairness


\* ======================= properties =======================

\* The result of the operation is in its JoinHandle (ready) or with the
\* caller (done).
Resolved(n) == call[n].pc \in {"ready", "done"}

\* The caller task has been handed the outcome of call n.
Received(n) == call[n].pc = "done" /\ ~call[n].cancelled

\* The closure of the operation has a connection checked out.
Holding(n) == call[n].conn # 0

\* The rows the work of operation n writes.
RowsOf(n) == {<<n, i>> : i \in {j \in 1..Len(F[call[n].f].ops) : F[call[n].f].ops[j] = "W"}}

Failure(g) == F[g].end \in {"DbError", "NotFound"}

\* C1 (release guarantee): an operation whose result is available, whatever
\* the result, holds no connection any more, and the connection it used is
\* back in the pool: whenever no closure has a connection checked out, all
\* max_size connections are idle, so the next operation finds one.
C1_ReleaseGuarantee ==
    /\ \A n \in CallIds : Resolved(n) => ~Holding(n)
    /\ (\A n \in CallIds : call[n].pc \in {"new", "ready", "done"})
          => idle = 1..max_size

\* Capacity 1, two operations issued one after the other by one task: the
\* first resolved with a query Error, the second found the connection.
C1_Witness ==
    /\ max_size = 1
    /\ call[1].pc = "done" /\ call[1].res.kind = "Error"
    /\ call[2].pc = "done" /\ call[2].res.kind = "Ok"
    /\ call[2].task = call[1].task

\* C2 (checkout exclusivity): at most max_size closures have a connection,
\* no two of them the same one, no connection is idle and checked out at
\* once, and the connections are the max_size the pool was built with
\* however many handles have been cloned.
C2_CheckoutExclusivity ==
    /\ Cardinality({n \in CallIds : Holding(n)}) <= max_size
    /\ \A n, m \in CallIds : n # m /\ Holding(n) => call[n].conn # call[m].conn
    /\ idle \cap held = {}
    /\ idle \cup held = 1..max_size

\* Capacity 1 and two concurrent runs: the work of one is executing while
\* the other waits in Pool::get, the handle having been cloned twice.
C2_Witness ==
    /\ max_size = 1
    /\ handles = 3
    /\ \E n, m \in CallIds :
          /\ call[n].op = "run" /\ call[n].pc = "body" /\ Holding(n)
          /\ call[m].op = "run" /\ call[m].pc = "get"

\* C3 as stated: no run resolves without its closure having run.
C3_NoRunResolvesWithoutClosure ==
    \A n \in CallIds :
        call[n].op = "run" /\ call[n].pc = "done" => call[n].inv = 1

\* C3 (amended): every run handed to the executor is eventually resolved;
\* one that reaches Pool::get either gets a connection and runs its work,
\* or is resolved with the Checkout timeout, its work never run.
C3_WaitersResolve ==
    /\ \A n \in CallIds :
          (call[n].op = "run" /\ call[n].pc = "queued") ~> (call[n].pc = "done")
    /\ \A n \in CallIds :
          (call[n].op = "run" /\ call[n].pc = "get")
             ~> (call[n].inv = 1 \/ call[n].res = Checkout("Timeout"))
    /\ [](\A n \in CallIds :
            call[n].op = "run" /\ Resolved(n) /\ call[n].inv = 0
               => call[n].res = Checkout("Timeout") /\ call[n].ip = 0)

\* Capacity 1, two concurrent runs: the second is on a worker, waiting in
\* Pool::get with no connection idle, while the closure of the first, its
\* work done, is about to give the connection back.
C3_Witness ==
    /\ max_size = 1
    /\ idle = {}
    /\ call[1].op = "run" /\ call[1].pc = "exit" /\ Holding(1)
    /\ call[2].op = "run" /\ call[2].pc = "get" /\ call[2].inv = 0

\* C4 (rollback on error): once a transaction whose work failed has its
\* result, the result is Error(e) with the work's own e, and no row the work
\* wrote is visible on any connection, in a scope or committed.
C4_RollbackOnError ==
    \A n \in CallIds :
        call[n].op = "transaction" /\ Failure(call[n].f) /\ call[n].inv = 1
          /\ call[n].pc \in {"exit", "ready", "done"}
        => /\ call[n].res = Error(F[call[n].f].end)
           /\ \A c \in 1..max_size : RowsOf(n) \cap Visible(c) = {}

\* A transaction of two writes and a failure is resolved, and a run issued
\* afterwards has read the rows and seen none.
C4_Witness ==
    /\ call[1].op = "transaction" /\ call[1].f = 3 /\ call[1].pc = "done"
    /\ call[1].res = Error("DbError")
    /\ call[2].op = "run" /\ call[2].f = 1 /\ call[2].pc = "done"
    /\ call[2].res = Ok(0)

\* C5 as stated: once a transaction whose work returned Ok has its result,
\* the result is that Ok and every row the work wrote is visible on every
\* connection of the pool; while the scope is open no other connection
\* sees them.
C5_CommitOnSuccess ==
    \A n \in CallIds :
        call[n].op = "transaction" /\ F[call[n].f].end = "Ok" /\ call[n].inv = 1
        => /\ Resolved(n)
              => /\ call[n].res = Ok(call[n].val)
                 /\ \A c \in 1..max_size : RowsOf(n) \subseteq Visible(c)
           /\ call[n].pc = "body"
              => \A c \in (1..max_size) \ {call[n].conn} :
                    RowsOf(n) \cap Visible(c) = {}

\* C6 (capacity-1 scenario): with one connection, while a transaction has
\* it no run has a connection or is executing its work, and a run has read
\* a row of a transaction that returned Ok only if that transaction had
\* committed and released the connection.
C6_CapacityOneScenario ==
    max_size = 1 =>
        \A a, b \in CallIds :
            a # b /\ call[a].op = "transaction" /\ call[b].op = "run"
            => /\ Holding(a) => ~Holding(b) /\ call[b].pc \notin {"begin", "body"}
               /\ F[call[a].f].end = "Ok" /\ RowsOf(a) \cap call[b].seen # {}
                     => Resolved(a) /\ call[a].res.kind = "Ok"

\* Task A's transaction has inserted its row and not yet returned; task B's
\* count is on a worker, waiting for the one connection.
C6_Witness ==
    /\ max_size = 1
    /\ \E a, b \in CallIds :
          /\ call[a].op = "transaction" /\ call[a].f = 2
          /\ call[a].pc = "body" /\ call[a].ip = 1
          /\ call[b].op = "run" /\ call[b].f = 1 /\ call[b].pc = "get"
          /\ call[a].task # call[b].task

\* C7 as stated: when the work of an operation has panicked, the awaiting
\* caller gets an error value of AsyncResult and its task goes on.
C7_PanicSurfacedAsResult ==
    \A n \in CallIds :
        call[n].pc = "done" /\ F[call[n].f].end = "Panic" /\ call[n].inv = 1
        => /\ call[n].task \notin panicked
           /\ call[n].out.kind \in {"Error", "Checkout"}

\* C8 (release on panic): once the work of an operation has panicked and
\* its closure is off its worker, the operation holds no connection, and
\* every connection of the pool is idle or checked out by another closure.
C8_ReleaseOnPanic ==
    \A n \in CallIds :
        call[n].res.kind = "Panic" /\ call[n].pc # "exit"
        => /\ Resolved(n) /\ ~Holding(n)
           /\ idle \cup held = 1..max_size

\* Capacity 1, one worker: the work of the first operation panicked; a later
\* operation has checked the connection out and is running on the worker.
C8_Witness ==
    /\ max_size = 1
    /\ workers = 1
    /\ call[1].res.kind = "Panic" /\ call[1].pc = "done"
    /\ call[2].pc = "body" /\ call[2].conn = 1

\* C9 (run result translation): a resolved run has Checkout exactly when its
\* checkout failed, and then f was not invoked; otherwise f was invoked
\* once, Ok(r) of f is Ok(r) and a failure e of f is Error(e); run adds no
\* outcome of its own.
C9_RunTranslation ==
    \A n \in CallIds :
        call[n].op = "run" /\ Resolved(n)
        => /\ call[n].res.kind \in {"Ok", "Error", "Checkout", "Panic"}
           /\ call[n].res.kind = "Checkout" <=> call[n].inv = 0
           /\ call[n].inv = 0 => call[n].ip = 0 /\ RowsOf(n) \cap db = {}
           /\ call[n].inv <= 1
           /\ call[n].inv = 1 =>
                 /\ call[n].ip = Len(F[call[n].f].ops)
                 /\ F[call[n].f].end = "Ok" => call[n].res = Ok(call[n].val)
                 /\ Failure(call[n].f) => call[n].res = Error(F[call[n].f].end)
                 /\ call[n].res.kind = "Panic" => F[call[n].f].end = "Panic"

\* One run resolved with the NotFound of its work, another with the
\* Checkout timeout.
C9_Witness ==
    \E n, m \in CallIds :
        /\ call[n].op = "run" /\ call[n].pc = "done"
        /\ call[n].res = Error("NotFound")
        /\ call[m].op = "run" /\ call[m].pc = "done"
        /\ call[m].res = Checkout("Timeout")

\* C10 (optional): of the result the caller received, optional() makes
\* Ok(Some(v)) of Ok(v), Ok(None) of Error(NotFound), and leaves a Checkout
\* error and any other query Error as it is.
C10_Optional ==
    \A n \in CallIds :
        call[n].pc = "done" /\ ~call[n].cancelled /\ call[n].res.kind # "Panic"
        => /\ call[n].res.kind = "Ok" => call[n].out = OkSome(call[n].res.val)
           /\ call[n].res = Error("NotFound") => call[n].out = OkNone
           /\ call[n].res.kind = "Checkout" => call[n].out = call[n].res
           /\ call[n].res.kind = "Error" /\ call[n].res.err # "NotFound"
                 => call[n].out = call[n].res

\* One caller got Ok(None) of a NotFound, another a database error unchanged.
C10_Witness ==
    \E n, m \in CallIds :
        /\ call[n].pc = "done" /\ call[n].res = Error("NotFound")
        /\ call[n].out = OkNone
        /\ call[m].pc = "done" /\ call[m].res = Error("DbError")
        /\ call[m].out = Error("DbError")

\* C11 as stated: once a run (execute_async included) whose work wrote rows
\* has resolved Ok, the rows are visible to a query on any connection of
\* the pool.
C11_ResolvedWriteVisible ==
    \A n \in CallIds :
        call[n].op = "run" /\ Resolved(n) /\ call[n].res.kind = "Ok"
        => \A c \in 1..max_size : RowsOf(n) \subseteq Visible(c)

\* C12 (one checkout, one release): an operation, whichever of the eight
\* methods it was called through, takes a connection only in its checkout
\* step, from the idle ones, and only once; the only other change of what it
\* holds is the release of that same connection when its closure ends; it
\* attempts no second checkout; resolved, it holds nothing.
C12_OneConnectionPerOperation ==
    [][\A n \in CallIds :
          /\ call'[n].conn # call[n].conn
             => \/ /\ call[n].conn = 0 /\ call[n].pc = "get"
                   /\ call'[n].conn \in idle
                   /\ idle' = idle \ {call'[n].conn}
                \/ /\ call'[n].conn = 0 /\ call[n].pc = "exit"
                   /\ call'[n].pc \in {"ready", "done"}
                   /\ call[n].conn \notin idle
                   /\ idle' = idle \cup {call[n].conn}
          /\ call'[n].pc = "get" => call[n].pc \in {"queued", "get"}
          /\ call'[n].pc = "queued" => call[n].pc \in {"new", "queued"}
          /\ call[n].pc \in {"ready", "done"}
             => call[n].conn = 0 /\ call'[n].conn = 0
          /\ call'[n].pc \in {"begin", "body"} => call'[n].conn # 0
      ]_vars

\* A first_async has been through its checkout and release, and a
\* transaction now holds the connection the first_async had given back.
C12_Witness ==
    /\ max_size = 1
    /\ call[1].via = "first_async" /\ call[1].pc = "done"
    /\ call[1].res = Error("NotFound") /\ call[1].conn = 0
    /\ call[2].via = "transaction" /\ call[2].pc = "body" /\ call[2].conn = 1
    /\ idle = {}

\* C13 as stated: a statement of a call executes on the connection the call
\* checked out, as the next one in the order of its work; the scopes open on
\* that connection at that moment are the call's own (one for a transaction,
\* none for the other operations), so that no statement of anyone else runs
\* inside a transaction's scope; a transaction's write stays in its scope.
C13_ScopeExclusiveAndOrdered ==
    [][\A m \in CallIds :
          call'[m].ip # call[m].ip
          => LET c == call[m].conn
                 i == call[m].ip + 1
             IN  /\ c # 0 /\ call'[m].conn = c /\ c \notin idle
                 /\ \A k \in CallIds \ {m} : call[k].conn # c
                 /\ call'[m].ip = i
                 /\ Len(txn[c]) = IF call[m].op = "transaction" THEN 1 ELSE 0
                 /\ call[m].op = "transaction" /\ F[call[m].f].ops[i] = "W"
                    => <<m, i>> \in txn'[c][1] /\ <<m, i>> \notin db'
      ]_vars

\* The same, in behaviours where no transaction's work has panicked.
C13_WithoutPanickedScope ==
    [][(\A k \in CallIds : ~(call[k].op = "transaction" /\ call[k].inv = 1
                              /\ F[call[k].f].end = "Panic"))
       => \A m \in CallIds :
          call'[m].ip # call[m].ip
          => LET c == call[m].conn
                 i == call[m].ip + 1
             IN  /\ c # 0 /\ call'[m].conn = c /\ c \notin idle
                 /\ \A k \in CallIds \ {m} : call[k].conn # c
                 /\ call'[m].ip = i
                 /\ Len(txn[c]) = IF call[m].op = "transaction" THEN 1 ELSE 0
                 /\ call[m].op = "transaction" /\ F[call[m].f].ops[i] = "W"
                    => <<m, i>> \in txn'[c][1] /\ <<m, i>> \notin db'
      ]_vars

\* C14 (blocking calls stay on workers): every step that touches the pool's
\* connections or the database (checkout, statement, opening a scope,
\* commit, rollback, release) is a step of one closure that is on a worker
\* thread; a call that is not on a worker (being submitted, queued, ready or
\* done) holds no connection and its work does not advance; the closures on
\* workers are never more than the worker threads.
C14_BlockingOnlyOnWorkers ==
    /\ [](/\ busy <= workers
          /\ \A n \in CallIds : Holding(n) => call[n].pc \in OnWorker)
    /\ [][/\ (idle' # idle \/ txn' # txn \/ db' # db)
             => \E n \in CallIds :
                   /\ call[n].pc \in OnWorker
                   /\ call'[n] # call[n]
                   /\ \A m \in CallIds \ {n} : call'[m] = call[m]
          /\ \A n \in CallIds :
                call[n].pc \notin OnWorker
                => /\ call'[n].conn = 0
                   /\ call'[n].ip = call[n].ip
                   /\ call'[n].inv = call[n].inv
                   /\ call[n].pc # "new" => call'[n].res = call[n].res
         ]_vars

\* With one worker thread: a transaction's statement has run on the worker
\* while a second call, submitted since, is queued and its caller suspended.
C14_Witness ==
    /\ workers = 1
    /\ call[1].op = "transaction" /\ call[1].pc = "body" /\ call[1].ip = 1
    /\ Holding(1)
    /\ call[2].pc = "queued" /\ ~call[2].cancelled /\ ~Holding(2)

\* C15 (cancellation does not retract work): dropping the future of a call
\* changes nothing but who waits for it: the pool, the scopes, the database
\* and the closure's position stay as they are; a cancelled transaction that
\* reaches the end of its work still closes its scope (commit or rollback);
\* a cancelled call that is over has run its closure to its end, has given
\* its connection back and has delivered nothing to the caller, not even the
\* panic of its work; and every cancelled call does get there.
C15_CancelDoesNotRetract ==
    /\ [](\A n \in CallIds :
             call[n].cancelled /\ call[n].pc = "done"
             => /\ call[n].res # NoRes
                /\ call[n].res.kind # "Checkout"
                   => call[n].inv = 1 /\ call[n].ip = Len(F[call[n].f].ops)
                /\ call[n].conn = 0
                /\ call[n].out = NoRes)
    /\ [][\A n \in CallIds :
             /\ call'[n].cancelled /\ ~call[n].cancelled
                => /\ idle' = idle /\ txn' = txn /\ db' = db
                   /\ handles' = handles /\ panicked' = panicked
                   /\ call'[n] = [call[n] EXCEPT
                         !.cancelled = TRUE,
                         !.pc = IF call[n].pc = "ready" THEN "done" ELSE @]
             /\ call[n].cancelled => call'[n].cancelled
             /\ call[n].cancelled /\ call[n].op = "transaction"
                  /\ call[n].pc = "body" /\ call'[n].pc = "exit"
                  /\ F[call[n].f].end # "Panic"
                => Len(txn'[call[n].conn]) = Len(txn[call[n].conn]) - 1
             /\ call[n].task \in panicked' \ panicked
                => \E m \in CallIds :
                      /\ call[m].task = call[n].task /\ ~call[m].cancelled
                      /\ call[m].pc = "ready" /\ call'[m].pc = "done"
                      /\ call[m].res.kind = "Panic"
         ]_vars
    /\ \A n \in CallIds :
          (call[n].cancelled /\ call[n].pc # "done")
             ~> (call[n].pc = "done" /\ call[n].conn = 0)

\* The future of a transaction was dropped while the closure was queued or
\* running (its task has since submitted another call, still queued); the
\* closure has nevertheless done its write and committed, and is about to
\* give the connection back.
C15_Witness ==
    /\ call[1].cancelled /\ call[1].op = "transaction" /\ call[1].f = 2
    /\ call[1].pc = "exit" /\ call[1].res = Ok(1) /\ Holding(1)
    /\ RowsOf(1) # {} /\ RowsOf(1) \subseteq db
    /\ call[2].task = call[1].task /\ call[2].pc = "queued"

\* C16 (at most once, delivered once): the work of a call is invoked at most
\* once and each of its statements is issued at most once, also after a
\* failure; a call whose closure is over has an outcome, and its work was
\* invoked unless the checkout failed; an outcome, once there, never
\* changes; the caller is handed it in one step, after which the call is
\* over for good.
C16_AtMostOnceDeliveredOnce ==
    /\ [](\A n \in CallIds :
             /\ call[n].inv <= 1
             /\ call[n].ip <= Len(F[call[n].f].ops)
             /\ call[n].pc \in {"exit", "ready", "done"}
                => /\ call[n].res # NoRes
                   /\ call[n].res.kind = "Checkout" <=> call[n].inv = 0
                   /\ call[n].res.kind \in {"Ok", "Error"}
                      => call[n].ip = Len(F[call[n].f].ops)
             /\ call[n].pc # "done" => call[n].out = NoRes
             /\ Received(n) /\ call[n].res.kind # "Panic"
                => call[n].out = optional(call[n].res))
    /\ [][\A n \in CallIds :
             /\ call'[n].inv \in {call[n].inv, call[n].inv + 1}
             /\ call'[n].ip \in {call[n].ip, call[n].ip + 1}
             /\ call[n].res # NoRes => call'[n].res = call[n].res
             /\ call[n].pc = "done" => call'[n] = call[n]
             /\ call[n].pc # "new" => call'[n].pc # "new"
             /\ call'[n].pc = "done" /\ call[n].pc # "done" /\ ~call'[n].cancelled
                => call[n].pc = "ready"
         ]_vars

\* A run whose work wrote twice and then failed: invoked once, both rows
\* written once, the error delivered to the caller.
C16_Witness ==
    \E n \in CallIds :
        /\ call[n].op = "run" /\ call[n].f = 3 /\ Received(n)
        /\ call[n].inv = 1 /\ call[n].ip = 2
        /\ call[n].res = Error("DbError") /\ call[n].out = Error("DbError")
        /\ RowsOf(n) \subseteq db

C18_ReleaseBeforeResolution ==
    [][\A n \in CallIds :
          /\ call[n].pc = "exit" /\ call'[n].pc # "exit"
             => /\ call'[n].pc \in {"ready", "done"}
                /\ call'[n].conn = 0
                /\ call[n].conn # 0 => call[n].conn \in idle'
          /\ call[n].pc = "ready" /\ call'[n].pc = "done"
             => call[n].conn = 0 /\ call'[n].conn = 0
          /\ call[n].pc = "new" /\ call'[n].pc = "queued"
             => /\ \A m \in CallIds :
                      call[m].task = call'[n].task /\ Received(m)
                      => call[m].conn = 0
                /\ (\A m \in CallIds : call[m].pc \in {"new", "done"})
                   => idle = 1..max_size
      ]_vars

\* Capacity one: a task has been handed the outcome of its batch and its
\* next call, a run, has the connection.
C18_Witness ==
    /\ max_size = 1
    /\ call[1].op = "batch" /\ Received(1) /\ call[1].res = Ok(0)
    /\ call[2].task = call[1].task /\ call[2].via = "run"
    /\ call[2].conn = 1 /\ call[2].pc = "body"

\* C19 as stated: a scope is open on a connection only while a transaction
\* that has checked it out is at work on it, so an idle connection has no
\* open scope; a call whose checkout failed has opened no scope and has not
\* invoked its work.
C19_ScopeInsideCheckout ==
    /\ \A c \in 1..max_size :
          txn[c] # <<>>
          => \E n \in CallIds :
                /\ call[n].op = "transaction" /\ call[n].conn = c
                /\ call[n].pc = "body"
    /\ \A c \in idle : txn[c] = <<>>
    /\ \A n \in CallIds :
          call[n].res.kind = "Checkout"
          => call[n].inv = 0 /\ call[n].ip = 0 /\ call[n].conn = 0

\* The same, for the connections no panicked transaction has been on, which
\* is what holds.
C19_WithoutPanickedScope ==
    (\A k \in CallIds : ~(call[k].op = "transaction" /\ call[k].inv = 1
                           /\ F[call[k].f].end = "Panic"
                           /\ call[k].ip = Len(F[call[k].f].ops)))
    => C19_ScopeInsideCheckout

\* A step of a closure or of an awaiting caller, a checkout timing out
\* aside.
Progress ==
    \E n \in CallIds :
        \/ WorkerStart(n)
        \/ \E c \in ConnIds : get(n, c)
        \/ begin_transaction(n)
        \/ Statement(n)
        \/ FReturn(n)
        \/ commit_transaction(n)
        \/ rollback_transaction(n)
        \/ Panic(n)
        \/ DropClosure(n)
        \/ Await(n)

\* The next step of the closure of call n once it has its connection.
HolderStep(n) ==
    \/ begin_transaction(n)
    \/ Statement(n)
    \/ FReturn(n)
    \/ commit_transaction(n)
    \/ rollback_transaction(n)
    \/ Panic(n)
    \/ DropClosure(n)

\* C20 (no deadlock between the worker pool and the connection pool): as
\* long as a call is unfinished some closure or caller can take a step even
\* without any checkout timing out; a closure that holds a connection can
\* always take its next step, whatever the other workers and connections
\* are doing; and every submitted call, of any of the operations, comes to
\* its end.
C20_NoDeadlock ==
    /\ []((\E n \in CallIds : call[n].pc \notin {"new", "done"})
             => ENABLED Progress)
    /\ [](\A n \in CallIds : Holding(n) => ENABLED HolderStep(n))
    /\ \A n \in CallIds : (call[n].pc = "queued") ~> (call[n].pc = "done")

\* Both workers are taken and the only connection is out: a transaction is
\* at work on it and another transaction's closure waits in its checkout.
C20_Witness ==
    /\ workers = 2 /\ max_size = 1 /\ idle = {}
    /\ call[1].op = "transaction" /\ call[1].pc = "body" /\ Holding(1)
    /\ call[2].op = "transaction" /\ call[2].pc = "get"
    /\ busy = workers

====
